---- MODULE Spec2Model ----
(***************************************************************************)
(* ShortQueue<N>: a fixed-capacity single-producer single-consumer byte    *)
(* ring (src/src/lib.rs).  The queue holds two u8 cursors, head and tail,  *)
(* and N one-byte slots.  The const generic N is fixed per queue; here it  *)
(* is chosen once, in Init, and never changes.                             *)
(*                                                                         *)
(* Spec, SpecUsable and SpecWide model sequential use: every public call  *)
(* (push, pop, drain, len, is_empty, is_full, capacity) is one action that *)
(* performs the whole call.  A call that panics (a u8 remainder whose divisor       *)
(* `N as u8` is 0) sets aborted and the program performs no further call.  *)
(*                                                                         *)
(* SpecConc, SpecSPSC and SpecProgress model the split handles: a Producer *)
(* and a Consumer run their calls concurrently, one atomic load, slot      *)
(* access or atomic store at a time (prod, cons hold each side's position  *)
(* and locals).  The atomics are Acquire/Release on the cursor the other   *)
(* side owns, so every load returns the latest store; the steps interleave *)
(* in any order.                                                           *)
(***************************************************************************)
EXTENDS Integers, Sequences, FiniteSets, TLC

VARIABLES
    N,        \* the const generic parameter of ShortQueue<N>
    head,     \* AtomicU8, written by pop and drain
    tail,     \* AtomicU8, written by push
    buf,      \* [Cell<u8>; N], slots 0..N-1
    aborted,  \* TRUE once a call has panicked
    last,     \* the most recent call: its name, argument, result and the state it started in
    pending,  \* history: the bytes accepted by push and not yet popped or drained, oldest first
    phase,    \* history: "push" until the first pop, "pop" while only pops follow, else "other"
    pushed,   \* history: the bytes accepted during phase "push", in order
    popped,   \* history: the results of the pops made during phase "pop", in order
    prod,     \* the Producer handle's context: its call, the step it is at, its locals
    cons,     \* the Consumer handle's context: its call, the step it is at, its locals
    hist      \* history of the handles: bytes accepted by Producer::push, bytes returned by Consumer::pop

vars == <<N, head, tail, buf, aborted, last, pending, phase, pushed, popped,
          prod, cons, hist>>

(***************************************************************************)
(* Sizes and inputs of the model.                                          *)
(***************************************************************************)
\* Small queues are explored with every size 1..MaxN.
MaxN == 4

\* new() accepts N up to this value (assert!( N <= 256 )).
MaxSize == 256

\* The smallest N for which tail - head + N can exceed the u8 range.
WideN == MaxSize \div 2 + 1

\* The bytes pushed into a queue of the given size.  A wide queue is pushed
\* one byte value only, which keeps its slot array from multiplying states.
Bytes(n) == IF n <= MaxN THEN {0, 1, 255} ELSE {255}

\* Option<u8>
None == <<>>
Some(v) == <<v>>

(***************************************************************************)
(* u8 arithmetic                                                           *)
(***************************************************************************)
wrapping_add(a, b) == (a + b) % 256
wrapping_sub(a, b) == (a - b + 256) % 256

\* `N as u8`: the usize N truncated to 8 bits; 0 for N = 256.
N_as_u8 == N % 256

\* `x % (N as u8)` panics (remainder with a divisor of zero) when N as u8 is 0.
rem_panics == N_as_u8 = 0

\* increment with the `wrapping_add(1)` left out.
increment_no_add(p) == p % N_as_u8

\* increment with the `% (N as u8)` left out.
increment_no_wrap(p) == wrapping_add(p, 1)

\* increment: evaluated only where ~rem_panics.
increment(p) == wrapping_add(p, 1) % N_as_u8

\* new(): the asserts N > 0 and N <= 256 decide which N construct a queue.
new_accepts(n) == n > 0 /\ n <= MaxSize

capacity == N - 1

\* len(): evaluated only where ~rem_panics.
len(h, t) == wrapping_add(wrapping_sub(t, h), N_as_u8) % N_as_u8

is_empty(h, t) == h = t

\* is_full(): evaluated only where ~rem_panics.
is_full(h, t) == increment(t) = h

(***************************************************************************)
(* The three mutating calls, each as the result of running it to its end   *)
(* from the current state.  panic: the call aborted; ret: what it returned *)
(* (meaningless when panic); head/tail/buf: the fields after the call.     *)
(***************************************************************************)
\* push_inner storing the byte in the slot after tail.
push_inner_next_slot(v) ==
    LET t == tail IN
    IF rem_panics
    THEN [panic |-> TRUE, ret |-> FALSE, tail |-> tail, buf |-> buf]
    ELSE LET next_tail == increment(t) IN
         IF next_tail = head
         THEN [panic |-> FALSE, ret |-> FALSE, tail |-> tail, buf |-> buf]
         ELSE [panic |-> FALSE, ret |-> TRUE, tail |-> next_tail,
               buf |-> [buf EXCEPT ![next_tail] = v]]

\* push_inner storing the byte before it tests for a full queue.
push_inner_write_first(v) ==
    LET t == tail IN
    IF rem_panics
    THEN [panic |-> TRUE, ret |-> FALSE, tail |-> tail, buf |-> buf]
    ELSE LET next_tail == increment(t) IN
         IF next_tail = head
         THEN [panic |-> FALSE, ret |-> FALSE, tail |-> tail,
               buf |-> [buf EXCEPT ![t] = v]]
         ELSE [panic |-> FALSE, ret |-> TRUE, tail |-> next_tail,
               buf |-> [buf EXCEPT ![t] = v]]

push_inner(v) ==
    LET t == tail IN
    IF rem_panics
    THEN [panic |-> TRUE, ret |-> FALSE, tail |-> tail, buf |-> buf]
    ELSE LET next_tail == increment(t) IN
         IF next_tail = head
         THEN [panic |-> FALSE, ret |-> FALSE, tail |-> tail, buf |-> buf]
         ELSE [panic |-> FALSE, ret |-> TRUE, tail |-> next_tail,
               buf |-> [buf EXCEPT ![t] = v]]

\* pop_inner testing for an empty queue with `head >= tail`.
pop_inner_ordered ==
    LET h == head IN
    IF h >= tail
    THEN [panic |-> FALSE, ret |-> None, head |-> head]
    ELSE IF rem_panics
         THEN [panic |-> TRUE, ret |-> None, head |-> head]
         ELSE LET next_head == increment(h)
                  rv == buf[h]
              IN  [panic |-> FALSE, ret |-> Some(rv), head |-> next_head]

pop_inner ==
    LET h == head IN
    IF h = tail
    THEN [panic |-> FALSE, ret |-> None, head |-> head]
    ELSE IF rem_panics
         THEN [panic |-> TRUE, ret |-> None, head |-> head]
         ELSE LET next_head == increment(h)
                  rv == buf[h]
              IN  [panic |-> FALSE, ret |-> Some(rv), head |-> next_head]

\* drain(): head.store( tail.load() ); it returns ().
drain == [panic |-> FALSE, ret |-> None, head |-> tail]

(***************************************************************************)
(* History of the run, for the properties that speak of earlier calls.     *)
(***************************************************************************)
\* The record of a call, kept in `last`, with the state the call started in.
Call(op, arg, r) ==
    [op |-> op, arg |-> arg, ret |-> r.ret, panic |-> r.panic,
     head0 |-> head, tail0 |-> tail, buf0 |-> buf]

\* The pushes-then-pops run of tests::pop: bytes are collected while only
\* pushes have been called, pop results while only pops follow, and the run
\* is over ("other") at a drain, at a push after a pop, or once as many pops
\* as accepted pushes have been made.
Over == [phase |-> "other", pushed |-> <<>>, popped |-> <<>>]

track(op, arg, r) ==
    IF r.panic THEN [phase |-> phase, pushed |-> pushed, popped |-> popped]
    ELSE IF op = "push" THEN
        IF phase = "push"
        THEN [phase |-> "push",
              pushed |-> IF r.ret THEN Append(pushed, arg) ELSE pushed,
              popped |-> popped]
        ELSE Over
    ELSE IF op = "pop" THEN
        IF phase \in {"push", "pop"} /\ Len(popped) < Len(pushed)
        THEN [phase |-> "pop", pushed |-> pushed, popped |-> Append(popped, r.ret)]
        ELSE Over
    ELSE Over

Tracked(op, arg, r) ==
    LET s == track(op, arg, r) IN
    /\ phase' = s.phase
    /\ pushed' = s.pushed
    /\ popped' = s.popped

(***************************************************************************)
(* The handles of split(), before either has made a call.                  *)
(*   pc     "idle", the step the running call is at, or "panicked"         *)
(*   op     the running call, or the call that returned last               *)
(*   ret    what the last push / is_empty / is_full returned               *)
(*   out    what the last pop returned                                     *)
(*   steps  the steps the running (or last) call has made                  *)
(*   v, head, tail, next_tail, next_head, rv: the locals of the code       *)
(*   inc_tail  the temporary `Self::increment( tail.load() )` of is_full   *)
(*   free   Producer: is_full() returned false and no push has ended since *)
(*   avail  Consumer: is_empty() returned false and no pop or drain has    *)
(*          ended since                                                    *)
(*   hoped  the value of free (avail) when the last push (pop) ended       *)
(*   mark   Consumer: the pushes accepted when the running drain loaded    *)
(*          tail                                                           *)
(*   skip   Consumer: the slots the last drain's store moved head forward  *)
(*   held   Consumer: the occupied slots just before that store            *)
(*   late   Consumer: the pushes accepted between the last drain's load    *)
(*          and its store                                                  *)
(***************************************************************************)
ProducerNew ==
    [pc |-> "idle", op |-> "none", ret |-> FALSE, steps |-> 0,
     v |-> 0, head |-> 0, tail |-> 0, next_tail |-> 0, inc_tail |-> 0,
     free |-> FALSE, hoped |-> FALSE]

ConsumerNew ==
    [pc |-> "idle", op |-> "none", ret |-> FALSE, out |-> None, steps |-> 0,
     head |-> 0, tail |-> 0, next_head |-> 0, rv |-> 0, inc_tail |-> 0,
     avail |-> FALSE, hoped |-> FALSE, mark |-> 0, skip |-> 0, held |-> 0,
     late |-> 0]

HistNew == [acc |-> <<>>, got |-> <<>>]

(***************************************************************************)
(* Initial state: new() for an N it accepts.                               *)
(***************************************************************************)
Sizes == (1..MaxN) \cup {WideN, MaxSize}

InitOf(sizes) ==
    /\ N \in {n \in sizes : new_accepts(n)}
    /\ head = 0
    /\ tail = 0
    /\ buf = [i \in 0..(N - 1) |-> 0]
    /\ aborted = FALSE
    /\ last = [op |-> "new", arg |-> 0, ret |-> None, panic |-> FALSE,
               head0 |-> 0, tail0 |-> 0, buf0 |-> [i \in 0..(N - 1) |-> 0]]
    /\ pending = <<>>
    /\ phase = "push"
    /\ pushed = <<>>
    /\ popped = <<>>
    /\ prod = ProducerNew
    /\ cons = ConsumerNew
    /\ hist = HistNew

Init == InitOf(Sizes)

(***************************************************************************)
(* The calls.                                                              *)
(***************************************************************************)
Push(v) ==
    /\ ~aborted
    /\ LET r == push_inner(v) IN
       /\ tail' = r.tail
       /\ buf' = r.buf
       /\ aborted' = r.panic
       /\ last' = Call("push", v, r)
       /\ pending' = IF ~r.panic /\ r.ret THEN Append(pending, v) ELSE pending
       /\ Tracked("push", v, r)
    /\ UNCHANGED <<N, head, prod, cons, hist>>

Pop ==
    /\ ~aborted
    /\ LET r == pop_inner IN
       /\ head' = r.head
       /\ aborted' = r.panic
       /\ last' = Call("pop", 0, r)
       /\ pending' = IF ~r.panic /\ r.ret # None THEN Tail(pending) ELSE pending
       /\ Tracked("pop", 0, r)
    /\ UNCHANGED <<N, tail, buf, prod, cons, hist>>

Drain ==
    /\ ~aborted
    /\ LET r == drain IN
       /\ head' = r.head
       /\ aborted' = r.panic
       /\ last' = Call("drain", 0, r)
       /\ pending' = <<>>
       /\ Tracked("drain", 0, r)
    /\ UNCHANGED <<N, tail, buf, prod, cons, hist>>

\* A query reads the cursors and changes nothing but the record of the call.
Query(op, r) ==
    /\ ~aborted
    /\ aborted' = r.panic
    /\ last' = Call(op, 0, r)
    /\ UNCHANGED <<N, head, tail, buf, pending, phase, pushed, popped,
                   prod, cons, hist>>

LenCall ==
    Query("len", IF rem_panics THEN [panic |-> TRUE, ret |-> 0]
                 ELSE [panic |-> FALSE, ret |-> len(head, tail)])

IsEmptyCall == Query("is_empty", [panic |-> FALSE, ret |-> is_empty(head, tail)])

IsFullCall ==
    Query("is_full", IF rem_panics THEN [panic |-> TRUE, ret |-> FALSE]
                     ELSE [panic |-> FALSE, ret |-> is_full(head, tail)])

CapacityCall == Query("capacity", [panic |-> FALSE, ret |-> capacity])

Next ==
    \/ \E v \in Bytes(N) : Push(v)
    \/ Pop
    \/ Drain
    \/ LenCall
    \/ IsEmptyCall
    \/ IsFullCall
    \/ CapacityCall

Spec == Init /\ [][Next]_vars

\* The same program, for the queues that have room for a byte (N >= 2).
InitUsable == InitOf((2..MaxN) \cup {MaxSize})

SpecUsable == InitUsable /\ [][Next]_vars

\* The same program, for the wide queue alone.
InitWide == InitOf({WideN})

SpecWide == InitWide /\ [][Next]_vars

(***************************************************************************)
(* Type invariant of the model.  Both cursors stay below N, so the slot    *)
(* push_inner writes unchecked (get_unchecked_mut) and the slot pop_inner  *)
(* reads are slots of buf in every state the calls are made from.          *)
(***************************************************************************)
TypeOK ==
    /\ new_accepts(N)
    /\ head \in 0..(N - 1)
    /\ tail \in 0..(N - 1)
    /\ DOMAIN buf = 0..(N - 1)
    /\ \A i \in DOMAIN buf : buf[i] \in 0..255
    /\ aborted \in BOOLEAN
    /\ phase \in {"push", "pop", "other"}

(***************************************************************************)
(* What the queue holds, read off its fields.                              *)
(***************************************************************************)
\* The occupied count over the integers.
Count(h, t) == (t - h + N) % N

\* The slots from h up to (not including) t, in ring order.
Occupied(h, t, b) == [i \in 1..Count(h, t) |-> b[(h + i - 1) % N]]

\* The queue as the most recent call found it.
Before == Occupied(last.head0, last.tail0, last.buf0)

(***************************************************************************)
(* The split handles, one atomic operation per step.                       *)
(* A call starts with its first load; what the code computes between two   *)
(* accesses of the shared fields (increment, the comparisons) belongs to   *)
(* the step of the access before it.  A context that panics stops; the     *)
(* other context runs on.                                                  *)
(***************************************************************************)
\* Producer::push is called at most this many times with success.
MaxPushes == 4

\* The concurrent runs use queues of 1..MaxConcN slots and of MaxSize slots.
MaxConcN == 3

ConcSizes == (1..MaxConcN) \cup {MaxSize}

\* The k-th accepted byte is k: every accepted byte differs from the others.
NextByte == Len(hist.acc) + 1

\* The locals are dead once a call has returned.
Returned(c, steps) ==
    [c EXCEPT !.pc = "idle", !.steps = steps, !.head = 0, !.tail = 0,
              !.inc_tail = 0]

Panicked(c, op, steps) == [c EXCEPT !.pc = "panicked", !.op = op, !.steps = steps]

seq_hist == <<last, phase, pushed, popped>>

\* push_inner: `let tail = self.tail.load( Relaxed ); let next_tail = increment( tail );`
PushLoadTail ==
    /\ prod.pc = "idle"
    /\ Len(hist.acc) < MaxPushes
    /\ prod' = IF rem_panics THEN Panicked(prod, "push", 1)
               ELSE [prod EXCEPT !.pc = "push_load_head", !.op = "push",
                                 !.steps = 1, !.v = NextByte, !.tail = tail,
                                 !.next_tail = increment(tail)]
    /\ aborted' = (aborted \/ rem_panics)
    /\ UNCHANGED <<N, head, tail, buf, pending, cons, hist, seq_hist>>

\* push_inner without the test for a full queue.
PushLoadHead_unchecked ==
    /\ prod.pc = "push_load_head"
    /\ prod' = [prod EXCEPT !.pc = "push_write", !.steps = 2]
    /\ UNCHANGED <<N, head, tail, buf, aborted, pending, cons, hist, seq_hist>>

\* push_inner: `if next_tail == self.head.load( Acquire ) { return false; }`
PushLoadHead ==
    /\ prod.pc = "push_load_head"
    /\ prod' = IF prod.next_tail = head
               THEN [Returned(prod, 2) EXCEPT !.ret = FALSE, !.free = FALSE,
                                              !.hoped = prod.free,
                                              !.v = 0, !.next_tail = 0]
               ELSE [prod EXCEPT !.pc = "push_write", !.steps = 2]
    /\ UNCHANGED <<N, head, tail, buf, aborted, pending, cons, hist, seq_hist>>

\* push_inner whose slot write is not visible when tail is published (a
\* Relaxed store of tail).
PushWrite_not_visible ==
    /\ prod.pc = "push_write"
    /\ prod' = [prod EXCEPT !.pc = "push_store_tail", !.steps = 3]
    /\ UNCHANGED <<N, head, tail, buf, aborted, pending, cons, hist, seq_hist>>

\* push_inner: `*self.buf.get_unchecked_mut( tail ) = v`
PushWrite ==
    /\ prod.pc = "push_write"
    /\ buf' = [buf EXCEPT ![prod.tail] = prod.v]
    /\ prod' = [prod EXCEPT !.pc = "push_store_tail", !.steps = 3]
    /\ UNCHANGED <<N, head, tail, aborted, pending, cons, hist, seq_hist>>

\* push_inner: `self.tail.store( next_tail, Release ); true`
PushStoreTail ==
    /\ prod.pc = "push_store_tail"
    /\ tail' = prod.next_tail
    /\ pending' = Append(pending, prod.v)
    /\ hist' = [hist EXCEPT !.acc = Append(@, prod.v)]
    /\ prod' = [Returned(prod, 4) EXCEPT !.ret = TRUE, !.free = FALSE,
                                         !.hoped = prod.free,
                                         !.v = 0, !.next_tail = 0]
    /\ UNCHANGED <<N, head, buf, aborted, cons, seq_hist>>

\* pop_inner: `let head = self.head.load( Relaxed );`
PopLoadHead ==
    /\ cons.pc = "idle"
    /\ cons' = [cons EXCEPT !.pc = "pop_load_tail", !.op = "pop", !.steps = 1,
                            !.head = head]
    /\ UNCHANGED <<N, head, tail, buf, aborted, pending, prod, hist, seq_hist>>

\* pop_inner comparing head with itself: every pop finds the queue empty.
PopLoadTail_self ==
    /\ cons.pc = "pop_load_tail"
    /\ cons' = [Returned(cons, 2) EXCEPT !.out = None, !.avail = FALSE,
                                         !.hoped = cons.avail]
    /\ UNCHANGED <<N, head, tail, buf, aborted, pending, prod, hist, seq_hist>>

\* pop_inner: `if head == self.tail.load( Acquire ) { return None; }`
\*            `let next_head = Self::increment( head );`
PopLoadTail ==
    /\ cons.pc = "pop_load_tail"
    /\ cons' = IF cons.head = tail
               THEN [Returned(cons, 2) EXCEPT !.out = None, !.avail = FALSE,
                                              !.hoped = cons.avail]
               ELSE IF rem_panics THEN Panicked(cons, "pop", 2)
               ELSE [cons EXCEPT !.pc = "pop_read", !.steps = 2,
                                 !.next_head = increment(cons.head)]
    /\ aborted' = (aborted \/ (cons.head # tail /\ rem_panics))
    /\ UNCHANGED <<N, head, tail, buf, pending, prod, hist, seq_hist>>

\* pop_inner: `let rv = self.buf[ usize::from( head ) ].get();` (a checked index)
PopRead ==
    /\ cons.pc = "pop_read"
    /\ cons' = IF cons.head \in DOMAIN buf
               THEN [cons EXCEPT !.pc = "pop_store_head", !.steps = 3,
                                 !.rv = buf[cons.head]]
               ELSE Panicked(cons, "pop", 3)
    /\ aborted' = (aborted \/ cons.head \notin DOMAIN buf)
    /\ UNCHANGED <<N, head, tail, buf, pending, prod, hist, seq_hist>>

\* pop_inner: `self.head.store( next_head, Release ); Some( rv )`
PopStoreHead ==
    /\ cons.pc = "pop_store_head"
    /\ head' = cons.next_head
    /\ pending' = IF pending = <<>> THEN pending ELSE Tail(pending)
    /\ hist' = [hist EXCEPT !.got = Append(@, cons.rv)]
    /\ cons' = [Returned(cons, 4) EXCEPT !.out = Some(cons.rv), !.avail = FALSE,
                                         !.hoped = cons.avail,
                                         !.next_head = 0, !.rv = 0]
    /\ UNCHANGED <<N, tail, buf, aborted, prod, seq_hist>>

\* drain loading head where it should load tail.
DrainLoadTail_head ==
    /\ cons.pc = "idle"
    /\ cons' = [cons EXCEPT !.pc = "drain_store_head", !.op = "drain",
                            !.steps = 1, !.tail = head, !.mark = Len(hist.acc)]
    /\ UNCHANGED <<N, head, tail, buf, aborted, pending, prod, hist, seq_hist>>

\* drain: `self.tail.load( Acquire )`
DrainLoadTail ==
    /\ cons.pc = "idle"
    /\ cons' = [cons EXCEPT !.pc = "drain_store_head", !.op = "drain",
                            !.steps = 1, !.tail = tail, !.mark = Len(hist.acc)]
    /\ UNCHANGED <<N, head, tail, buf, aborted, pending, prod, hist, seq_hist>>

\* drain's store of h into head, with the history of what it discards.
DrainStore(h) ==
    /\ cons.pc = "drain_store_head"
    /\ head' = h
    /\ pending' = SubSeq(pending, Count(head, h) + 1, Len(pending))
    /\ cons' = [Returned(cons, 2) EXCEPT !.avail = FALSE, !.mark = 0,
                                         !.skip = Count(head, h),
                                         !.held = Count(head, tail),
                                         !.late = Len(hist.acc) - cons.mark]
    /\ UNCHANGED <<N, tail, buf, aborted, prod, hist, seq_hist>>

\* drain: `self.head.store( .., Release )` of the value loaded from tail
\* drain storing the slot after the loaded tail into head.
DrainStoreHead_past == DrainStore((cons.tail + 1) % N)

\* drain resetting both cursors instead of storing the loaded tail into head.
DrainStoreHead_reset ==
    /\ cons.pc = "drain_store_head"
    /\ head' = 0
    /\ tail' = 0
    /\ pending' = <<>>
    /\ cons' = [Returned(cons, 2) EXCEPT !.avail = FALSE, !.mark = 0,
                                         !.skip = Count(head, tail),
                                         !.held = Count(head, tail),
                                         !.late = Len(hist.acc) - cons.mark]
    /\ UNCHANGED <<N, buf, aborted, prod, hist, seq_hist>>

DrainStoreHead == DrainStore(cons.tail)

\* is_empty: `self.head.load( Relaxed )`, the left operand of `==`
is_empty_load_head(c) ==
    [c EXCEPT !.pc = "is_empty_load_tail", !.op = "is_empty", !.steps = 1,
              !.head = head]

\* is_empty: `== self.tail.load( Relaxed )`
is_empty_load_tail(c) == [Returned(c, 2) EXCEPT !.ret = (c.head = tail)]

\* is_full: `Self::increment( self.tail.load( Relaxed ) )`, the left operand of `==`
is_full_load_tail(c) ==
    IF rem_panics THEN Panicked(c, "is_full", 1)
    ELSE [c EXCEPT !.pc = "is_full_load_head", !.op = "is_full", !.steps = 1,
                   !.inc_tail = increment(tail)]

\* is_full with the comparison negated.
is_full_load_head_negated(c) == [Returned(c, 2) EXCEPT !.ret = (c.inc_tail # head)]

\* is_full: `== self.head.load( Relaxed )`
is_full_load_head(c) == [Returned(c, 2) EXCEPT !.ret = (c.inc_tail = head)]

\* Producer::is_empty and Producer::is_full
ProducerIsEmpty ==
    /\ \/ prod.pc = "idle" /\ prod' = is_empty_load_head(prod)
       \/ prod.pc = "is_empty_load_tail" /\ prod' = is_empty_load_tail(prod)
    /\ UNCHANGED <<N, head, tail, buf, aborted, pending, cons, hist, seq_hist>>

ProducerIsFull ==
    /\ \/ /\ prod.pc = "idle"
          /\ prod' = is_full_load_tail(prod)
          /\ aborted' = (aborted \/ rem_panics)
       \/ /\ prod.pc = "is_full_load_head"
          /\ prod' = LET r == is_full_load_head(prod)
                     IN  [r EXCEPT !.free = ~r.ret]
          /\ UNCHANGED aborted
    /\ UNCHANGED <<N, head, tail, buf, pending, cons, hist, seq_hist>>

\* Consumer::is_empty and Consumer::is_full
ConsumerIsEmpty ==
    /\ \/ cons.pc = "idle" /\ cons' = is_empty_load_head(cons)
       \/ /\ cons.pc = "is_empty_load_tail"
          /\ cons' = LET r == is_empty_load_tail(cons)
                     IN  [r EXCEPT !.avail = ~r.ret]
    /\ UNCHANGED <<N, head, tail, buf, aborted, pending, prod, hist, seq_hist>>

ConsumerIsFull ==
    /\ \/ /\ cons.pc = "idle"
          /\ cons' = is_full_load_tail(cons)
          /\ aborted' = (aborted \/ rem_panics)
       \/ /\ cons.pc = "is_full_load_head"
          /\ cons' = is_full_load_head(cons)
          /\ UNCHANGED aborted
    /\ UNCHANGED <<N, head, tail, buf, pending, prod, hist, seq_hist>>

ProducerPush == PushLoadTail \/ PushLoadHead \/ PushWrite \/ PushStoreTail

ConsumerPop == PopLoadHead \/ PopLoadTail \/ PopRead \/ PopStoreHead

ConsumerDrain == DrainLoadTail \/ DrainStoreHead

ProducerStep == ProducerPush \/ ProducerIsEmpty \/ ProducerIsFull

ConsumerStep == ConsumerPop \/ ConsumerDrain \/ ConsumerIsEmpty \/ ConsumerIsFull

InitConc == InitOf(ConcSizes)

\* Every call of both handles.
NextConc == ProducerStep \/ ConsumerStep

SpecConc == InitConc /\ [][NextConc]_vars

\* Producer::push against Consumer::pop alone.
NextSPSC == ProducerPush \/ ConsumerPop

SpecSPSC == InitConc /\ [][NextSPSC]_vars

(***************************************************************************)
(* Properties                                                              *)
(***************************************************************************)

\* C1: FIFO order.  On a new queue, once k pushes have been accepted and only
\* pops follow, the j-th pop (j <= k) returns Some of the j-th accepted byte:
\* k pops return exactly the k pushed bytes in push order.  k never exceeds
\* capacity().
C1_FifoOrder ==
    /\ Len(pushed) <= capacity
    /\ phase = "pop" =>
        /\ Len(popped) <= Len(pushed)
        /\ \A i \in 1..Len(popped) : popped[i] = Some(pushed[i])

\* C1 witness: a queue of at least 3 slots was filled to capacity with bytes
\* that differ, and every one of them has been popped.
C1_Witness ==
    /\ phase = "pop"
    /\ N >= 3
    /\ Len(pushed) = capacity
    /\ Len(popped) = Len(pushed)
    /\ pushed[1] # pushed[2]

\* C2: usable capacity.  capacity() returns N-1; on a new queue on which only
\* pushes have been called, a push returns true exactly while fewer than N-1
\* were accepted, after N-1 accepted pushes is_full() is true, and the push
\* after that returns false.
C2_UsableCapacity ==
    /\ last.op = "capacity" => last.ret = N - 1
    /\ (phase = "push" /\ last.op = "push") =>
        /\ ~last.panic
        /\ last.ret = (last.tail0 < N - 1)
        /\ Len(pushed) = IF last.ret THEN last.tail0 + 1 ELSE last.tail0
    /\ (phase = "push" /\ Len(pushed) = N - 1) =>
        /\ ~rem_panics
        /\ is_full(head, tail)

\* C3: push returns false exactly when len() == capacity() held immediately
\* before the call, and true in every other state.
C3_PushFalseIffLenIsCapacity ==
    last.op = "push" =>
        /\ ~last.panic
        /\ ~rem_panics
        /\ (last.ret = FALSE) <=> (len(last.head0, last.tail0) = capacity)

\* C4: len() returns (tail - head + N) mod N computed over the integers, which
\* is the number of bytes accepted and not yet popped or drained, and lies in
\* 0..N-1.
C4_LenIsOccupiedCount ==
    last.op = "len" =>
        /\ ~last.panic
        /\ last.ret = Count(head, tail)
        /\ last.ret = Len(pending)
        /\ last.ret \in 0..(N - 1)

\* C5: pop returns None exactly when is_empty() was true immediately before
\* the call, and Some(byte) in every other state.
C5_PopNoneIffEmpty ==
    last.op = "pop" =>
        /\ ~last.panic
        /\ (last.ret = None) <=> is_empty(last.head0, last.tail0)
        /\ ~is_empty(last.head0, last.tail0) =>
              \E b \in 0..255 : last.ret = Some(b)

\* C5 witness: a pop found the queue non-empty with the cursors wrapped (tail
\* below head) and returned a byte.
C5_Witness ==
    /\ last.op = "pop"
    /\ ~last.panic
    /\ last.tail0 < last.head0
    /\ last.ret # None

\* C6: a push that returned false and a pop that returned None left head,
\* tail and every slot as they were before the call.
C6_FailedCallChangesNothing ==
    (/\ ~last.panic
     /\ \/ last.op = "push" /\ last.ret = FALSE
        \/ last.op = "pop" /\ last.ret = None)
    => /\ head = last.head0
       /\ tail = last.tail0
       /\ buf = last.buf0

\* C6 witness: a push was rejected by a full queue of capacity at least 2
\* whose slot at tail holds another byte than the one offered.
C6_Witness ==
    /\ last.op = "push"
    /\ ~last.panic
    /\ last.ret = FALSE
    /\ N >= 3
    /\ buf[tail] # last.arg

\* C7: after a drain from any state, is_empty() is true, len() is 0 and the
\* following pop returns None.
C7_DrainEmpties ==
    last.op = "drain" =>
        /\ ~last.panic
        /\ is_empty(head, tail)
        /\ ~rem_panics
        /\ len(head, tail) = 0
        /\ ~pop_inner.panic
        /\ pop_inner.ret = None

\* C8: totality.  No call of push, pop, drain, len, is_empty or is_full on a
\* constructed queue aborts.
C8_NoCallAborts ==
    /\ ~aborted
    /\ ~last.panic

\* C9 as stated: for every valid N, is_empty() and is_full() are never both
\* true.
C9_EmptyAndFullNeverCoincide ==
    ~(is_empty(head, tail) /\ ~rem_panics /\ is_full(head, tail))

\* C9 amended: for every valid N >= 2, is_empty() and is_full() never both
\* return true, and head == tail means that the queue holds no byte.
C9_EmptyNotFullFromTwoSlots ==
    N >= 2 =>
        /\ ~(is_empty(head, tail) /\ ~rem_panics /\ is_full(head, tail))
        /\ head = tail => pending = <<>>

\* C9 witness: a queue of at least 3 slots, emptied after its cursors have
\* left index 0, reports empty and not full.
C9_Witness ==
    /\ N >= 3
    /\ head = tail
    /\ head > 0
    /\ last.op = "pop"
    /\ last.ret # None
    /\ ~rem_panics
    /\ ~is_full(head, tail)

\* C10: refinement.  The slots from head up to tail hold exactly the bytes
\* accepted and not yet popped or drained, and every push, pop and drain
\* returns what a bounded FIFO sequence of capacity N-1 returns: push appends
\* and returns true iff fewer than N-1 bytes are held, pop removes and returns
\* the oldest byte or returns None on the empty sequence, drain clears.
C10_RefinesBoundedFifo ==
    /\ last.op \in {"push", "pop", "drain"} => ~last.panic
    /\ Occupied(head, tail, buf) = pending
    /\ last.op = "push" =>
          IF Len(Before) < N - 1
          THEN last.ret = TRUE /\ pending = Append(Before, last.arg)
          ELSE last.ret = FALSE /\ pending = Before
    /\ last.op = "pop" =>
          IF Before = <<>>
          THEN last.ret = None /\ pending = Before
          ELSE last.ret = Some(Head(Before)) /\ pending = Tail(Before)
    /\ last.op = "drain" => pending = <<>>

\* The indices of the slots from head up to (not including) tail.
OccupiedSlots == {(head + i) % N : i \in 0..(Count(head, tail) - 1)}

\* C11: slot exclusion.  The producer between its full check and its store of
\* tail (writing slot prod.tail) and the consumer between its empty check and
\* its store of head (reading slot cons.head) are never at the same slot; the
\* slot the producer writes is outside the occupied region [head, tail) and
\* the slot the consumer reads is inside it.
C11_SlotExclusion ==
    /\ ~(/\ prod.pc \in {"push_write", "push_store_tail"}
         /\ cons.pc \in {"pop_read", "pop_store_head"}
         /\ prod.tail = cons.head)
    /\ prod.pc \in {"push_write", "push_store_tail"} => prod.tail \notin OccupiedSlots
    /\ cons.pc \in {"pop_read", "pop_store_head"} => cons.head \in OccupiedSlots

\* C11 witness: in a queue of 3 slots whose cursors have wrapped, the
\* producer is about to write a slot while the consumer is about to read one.
C11_Witness ==
    /\ N >= 3
    /\ prod.pc = "push_write"
    /\ cons.pc = "pop_read"
    /\ prod.tail < cons.head

\* C12: concurrent FIFO.  With Producer::push against Consumer::pop, the
\* bytes returned by successful pops are at every moment a prefix of the
\* bytes accepted by successful pushes.
C12_PopsArePrefixOfPushes ==
    /\ Len(hist.got) <= Len(hist.acc)
    /\ hist.got = SubSeq(hist.acc, 1, Len(hist.got))

\* C12 witness: three bytes went through a queue of 2 slots and a fourth push
\* is in flight.
C12_Witness ==
    /\ N = 2
    /\ Len(hist.got) >= 3
    /\ prod.pc = "push_store_tail"

\* C13: non-blocking.  A call that has started can always take its next
\* step, whatever the other context is doing, and returns within 4 steps of
\* its own: no started call is ever left unable to return.
C13_NonBlocking ==
    /\ prod.steps <= 4
    /\ cons.steps <= 4
    /\ prod.pc # "idle" => prod.steps < 4 /\ ENABLED ProducerStep
    /\ cons.pc # "idle" => cons.steps < 4 /\ ENABLED ConsumerStep

\* C14 as stated: the value drain stores into head is the value of tail at the
\* moment of the store, so head == tail when drain completes.
C14_DrainIsAtomic ==
    (cons.op = "drain" /\ cons.pc = "idle") => cons.skip = cons.held

\* C14 amended: drain stores into head the value tail had at drain's load.
\* Every byte accepted before that load is discarded and every byte accepted
\* between the load and the store stays in the queue: head == tail when drain
\* completes exactly if no push was published in between.
C14_DrainStoresLoadedTail ==
    (cons.op = "drain" /\ cons.pc = "idle") =>
        /\ cons.skip <= cons.held
        /\ cons.held - cons.skip = cons.late

\* C14 witness: a drain discarded bytes and completed with a byte in the
\* queue that was published between its load and its store.
C14_Witness ==
    /\ cons.op = "drain"
    /\ cons.pc = "idle"
    /\ cons.skip > 0
    /\ cons.late > 0

\* C15: cursor bounds.  head and tail are in 0..N-1 in every state of every
\* interleaving, the cursor a push or a pop is about to store is (x + 1) mod N
\* over the integers, and the slot a push writes and the slot a pop reads are
\* slots of the N-slot storage.
C15_CursorBounds ==
    /\ head \in 0..(N - 1)
    /\ tail \in 0..(N - 1)
    /\ prod.pc \in {"push_load_head", "push_write", "push_store_tail"} =>
        /\ prod.tail = tail
        /\ prod.next_tail = (prod.tail + 1) % N
        /\ prod.tail \in DOMAIN buf
    /\ cons.pc \in {"pop_read", "pop_store_head"} =>
        /\ cons.head = head
        /\ cons.next_head = (cons.head + 1) % N
        /\ cons.head \in DOMAIN buf

\* C15 witness: in a queue of 3 slots a push is about to wrap tail from the
\* last slot to index 0 while a pop is about to advance head.
C15_Witness ==
    /\ N = 3
    /\ prod.pc = "push_store_tail"
    /\ prod.tail = N - 1
    /\ prod.next_tail = 0
    /\ cons.pc = "pop_store_head"

\* C16: single-writer frame.  No step of the producer changes head; no step
\* of the consumer changes tail or any storage slot.  Storage changes only in
\* a push's write step and only at slot tail; tail changes only in a push's
\* final store; head changes only in the final store of a pop or of a drain.
C16_SingleWriterFrame ==
    [][/\ prod' # prod => head' = head
       /\ cons' # cons => tail' = tail /\ buf' = buf
       /\ buf' # buf =>
            /\ prod.pc = "push_write"
            /\ \A i \in DOMAIN buf : i # tail => buf'[i] = buf[i]
            /\ tail' = tail
       /\ tail' # tail => prod.pc = "push_store_tail" /\ buf' = buf
       /\ head' # head => cons.pc \in {"pop_store_head", "drain_store_head"}]_vars

\* C16 witness: a pop has returned a byte, a drain has discarded bytes, and a
\* push is between its slot write and its store of tail.
C16_Witness ==
    /\ Len(hist.got) >= 1
    /\ cons.op = "drain"
    /\ cons.pc = "idle"
    /\ cons.skip > 0
    /\ prod.pc = "push_store_tail"

\* C17: occupancy state machine, in sequential use.  A successful push raises
\* the occupied count by exactly 1, a successful pop lowers it by exactly 1,
\* drain sets it to 0, no other call changes it, and no reachable state is
\* terminal: from every state a push or a pop succeeds.
C17_OccupancyStateMachine ==
    LET before == Count(last.head0, last.tail0)
        now == Count(head, tail)
    IN  /\ last.op = "push" =>
              IF ~last.panic /\ last.ret THEN now = before + 1 ELSE now = before
        /\ last.op = "pop" =>
              IF last.ret # None THEN now = before - 1 ELSE now = before
        /\ last.op = "drain" => now = 0
        /\ last.op \in {"new", "len", "is_empty", "is_full", "capacity"} =>
              now = before
        /\ \/ \E v \in Bytes(N) : ~push_inner(v).panic /\ push_inner(v).ret
           \/ ~pop_inner.panic /\ pop_inner.ret # None

\* C18: owner-side snapshots.  A push made by the Producer after its own
\* is_full() returned false returns true, whatever the Consumer pops or drains
\* in between; a pop made by the Consumer after its own is_empty() returned
\* false, with no drain in between, returns Some, whatever the Producer pushes
\* in between.
C18_OwnerSnapshotsStable ==
    /\ (prod.op = "push" /\ prod.pc = "idle" /\ prod.hoped) => prod.ret
    /\ (cons.op = "pop" /\ cons.pc = "idle" /\ cons.hoped) => cons.out # None

\* C18 witness: both sides have just finished such a call, the Producer's
\* push in a queue that has been filled up and popped from since.
C18_Witness ==
    /\ prod.op = "push"
    /\ prod.pc = "idle"
    /\ prod.hoped
    /\ prod.ret
    /\ Len(hist.acc) > N - 1
    /\ cons.op = "pop"
    /\ cons.pc = "idle"
    /\ cons.hoped
    /\ cons.out # None

\* C19: drain only discards.  With one producer pushing and one consumer
\* popping and draining, the bytes returned by successful pops, in order, are
\* a subsequence of the bytes accepted by successful pushes, in order; no
\* accepted byte is returned twice; a drain moves head forward by no more
\* than the occupied slots, never past tail; and the slots from head up to
\* tail hold exactly the accepted bytes neither popped nor discarded.
\* (The k-th accepted byte is k, so a strictly increasing sequence of indices
\* of hist.acc is such a subsequence.)
C19_DrainOnlyDiscards ==
    /\ \A i \in 1..Len(hist.got) :
          /\ hist.got[i] \in 1..Len(hist.acc)
          /\ hist.acc[hist.got[i]] = hist.got[i]
    /\ \A i, j \in 1..Len(hist.got) : i < j => hist.got[i] < hist.got[j]
    /\ (cons.op = "drain" /\ cons.pc = "idle") => cons.skip <= cons.held
    /\ Occupied(head, tail, buf) = pending

\* C19 witness: a drain has discarded a byte between two successful pops, and
\* a drain has just completed while a push was writing its slot.
C19_Witness ==
    /\ Len(hist.got) >= 2
    /\ hist.got[2] > hist.got[1] + 1
    /\ cons.op = "drain"
    /\ cons.pc = "idle"
    /\ prod.pc = "push_store_tail"

(***************************************************************************)
(* Progress of a producer that only pushes and a consumer that only pops.  *)
(* The consumer's pop steps are weakly fair; fairness of the producer is   *)
(* an assumption of the second half of C20 only.                           *)
(***************************************************************************)
SpecProgress == InitConc /\ [][NextSPSC]_vars /\ WF_vars(ConsumerPop)

\* The producer's last push was rejected and k - 1 bytes have been accepted.
Rejected(k) ==
    /\ prod.op = "push"
    /\ prod.pc = "idle"
    /\ ~prod.ret
    /\ Len(hist.acc) = k - 1

\* Every accepted byte is eventually returned by a pop.
AcceptedIsPopped ==
    \A k \in 1..MaxPushes : (Len(hist.acc) >= k) ~> (Len(hist.got) >= k)

\* C20 as stated: with weakly fair pop steps every accepted byte is eventually
\* returned by a pop, and with weakly fair push steps as well a push that was
\* rejected is eventually accepted.
C20_Progress ==
    /\ AcceptedIsPopped
    /\ WF_vars(ProducerPush) =>
          \A k \in 1..MaxPushes : Rejected(k) ~> (Len(hist.acc) >= k)

\* C20 amended: the same, the second half for queues of at least 2 slots.  A
\* queue of 1 slot has capacity 0 and rejects every push for ever.
C20_ProgressFromTwoSlots ==
    /\ AcceptedIsPopped
    /\ WF_vars(ProducerPush) =>
          \A k \in 1..MaxPushes :
              (N >= 2 /\ Rejected(k)) ~> (Len(hist.acc) >= k)

\* C20 witness: in a queue of capacity 1 that has been popped from, a push
\* has just been rejected while an accepted byte waits to be popped.
C20_Witness ==
    /\ N = 2
    /\ Rejected(Len(hist.acc) + 1)
    /\ Len(hist.got) >= 1
    /\ Len(hist.got) < Len(hist.acc)
    /\ Len(hist.acc) < MaxPushes

====
